---- MODULE Spec2Model ----
(***************************************************************************)
(* WhatsApp bot webhook (Twilio -> OpenAI -> Google Sheets).               *)
(*                                                                         *)
(* The repository holds two copies of the handler: src/main.py and its     *)
(* annotated copy src/codigo_comentado.py.  The variable impl says which   *)
(* copy is deployed.  Definitions without a suffix model                   *)
(* codigo_comentado.py; definitions with the suffix _main model main.py.   *)
(*                                                                         *)
(* A text is a sequence of one-character strings.  A literal of the        *)
(* program that holds no whitespace at its ends and none of & < > is       *)
(* written as a single multi-character element, in ASCII (accents and      *)
(* emoji of the source are transliterated).                                *)
(***************************************************************************)
EXTENDS Integers, Sequences, FiniteSets, TLC

VARIABLES
    impl,       \* which copy is deployed: "comentado" or "main"
    SHEET_ID,   \* module global read from the environment at import
    env,        \* what the Google side answers: [adc, keyfile, open, append]
    inbox,      \* requests sent by the messaging provider: id -> request
    pending,    \* ids of inbox not yet delivered to an invocation
    sheet,      \* rows of the spreadsheet, in append order
    pc,         \* per invocation: position in webhook
    rid,        \* per invocation: id of the request being handled
    request,    \* per invocation: the flask request
    body_orig,  \* per invocation: local of webhook
    sender,     \* per invocation: local of webhook
    t,          \* per invocation: local of webhook
    reply,      \* per invocation: local of webhook
    calls,      \* per invocation: calls made so far to composers and logger
    resp,       \* per invocation: the response webhook returns
    outbox      \* responses delivered to the caller: id -> response

vars == <<impl, SHEET_ID, env, inbox, pending, sheet, pc, rid, request,
          body_orig, sender, t, reply, calls, resp, outbox>>

\* ---------------------------------------------------------------- bounds
NumProcs == 2
MaxPad == 1
MaxInFlight == 2

Procs == 1..NumProcs

\* ------------------------------------------------------------------ text
None == <<"None">>

Whitespace == {" ", "\n", "\t"}

LowerChar(c) ==
    CASE c = "A" -> "a" [] c = "C" -> "c" [] c = "D" -> "d" [] c = "E" -> "e"
      [] c = "G" -> "g" [] c = "H" -> "h" [] c = "I" -> "i" [] c = "L" -> "l"
      [] c = "N" -> "n" [] c = "O" -> "o" [] c = "P" -> "p" [] c = "T" -> "t"
      [] c = "Y" -> "y"
      [] OTHER -> c

lower(s) == [i \in 1..Len(s) |-> LowerChar(s[i])]

RECURSIVE lstrip(_)
lstrip(s) == IF s /= <<>> /\ Head(s) \in Whitespace THEN lstrip(Tail(s)) ELSE s

RECURSIVE rstrip(_)
rstrip(s) ==
    IF s /= <<>> /\ s[Len(s)] \in Whitespace
    THEN rstrip(SubSeq(s, 1, Len(s) - 1))
    ELSE s

strip(s) == rstrip(lstrip(s))

startswith(s, p) == Len(s) >= Len(p) /\ SubSeq(s, 1, Len(p)) = p

\* s[n:]
slice_from(s, n) == SubSeq(s, n + 1, Len(s))

\* Python's "x or d" on an optional text: None and "" are falsy
Or(x, d) == IF x = None \/ x = <<>> THEN d ELSE x

\* form.get(key, default): the default only when the key is absent
get_default(x, d) == IF x = None THEN d ELSE x

\* ------------------------------------------------------------- literals
PING == <<"p", "i", "n", "g">>
SLASH_PING == <<"/">> \o PING
HELP == <<"h", "e", "l", "p">>
AYUDA == <<"a", "y", "u", "d", "a">>
SLASH_CODE == <<"/", "c", "o", "d", "e">>
SLASH_LOGTEST == <<"/", "l", "o", "g", "t", "e", "s", "t">>

PONG == <<"p", "o", "n", "g">>
DESCONOCIDO == <<"desconocido">>
DASH == <<"-">>
EMPTY_PROMPT == <<"Hola! Recibi tu mensaje vacio. Proba enviarme algo de texto :)">>
EMPTY_USER == <<"(mensaje vacio)">>

HELP_TEXT ==
    <<"Comandos:", "\n", "* /ping - prueba rapida", "\n", "* /code ",
      "<", "lenguaje", ">", " ", "<", "instruccion", ">",
      " - responde SOLO con codigo", "\n",
      "* /logtest - prueba de escritura en Sheets", "\n">>
HELP_TEXT_main ==
    <<"Comandos: /ping, /help, /code ", "<", "lenguaje", ">", " ",
      "<", "instruccion", ">">>

LOGTEST_MARKER == <<"[/logtest]">>
LOGTEST_ROW_REPLY == <<"OK log test">>
\* the check-mark emoji of the source is written [v]
LOGTEST_REPLY == <<"Log test [v] (se intento escribir en Sheets).">>

CODE_DEFAULT == <<"python: imprimir Hola Mundo">>
CODE_DEFAULT_main == <<"python ejemplo basico">>

APOLOGY == <<"No pude responder con IA ahora. Intenta de nuevo en unos segundos.">>
\* the three backticks of the fence are written as three apostrophes
CODE_FALLBACK ==
    <<"'''txt", "\n",
      "No pude generar el codigo ahora. Reintenta en unos segundos.", "\n", "'''">>
NO_REPLY_main == <<"No pude generar respuesta.">>
UPS_REPLY_main == <<"Ups, hubo un error consultando a IA: ">>
UPS_CODE_main == <<"Ups, no pude generar el codigo: ">>

DEBUG_SENDER == <<"debug">>
DEBUG_BODY == <<"GET ?debug=1">>
DEBUG_BODY_main == <<"GET /?debug=1">>
DEBUG_REPLY == <<"fila de test">>
DEBUG_WROTE == <<"debug wrote row">>
DEBUG_ERROR == <<"debug error: ">>
OK_BODY == <<"ok">>

\* ------------------------------------------------------ Google Sheets
\* the two resolutions in the other order
_get_google_creds_keyfile_first(e) ==
    IF e.keyfile
    THEN [ok |-> TRUE, creds |-> "keyfile", tried |-> <<"keyfile">>, err |-> <<>>]
    ELSE IF e.adc
    THEN [ok |-> TRUE, creds |-> "adc", tried |-> <<"keyfile", "adc">>,
          err |-> <<>>]
    ELSE [ok |-> FALSE, creds |-> "", tried |-> <<"keyfile", "adc">>,
          err |-> <<"DefaultCredentialsError">>]

\* google.auth.default first; Credentials.from_service_account_file only
\* after it raised.  tried lists the resolutions attempted, in order.
_get_google_creds(e) ==
    IF e.adc
    THEN [ok |-> TRUE, creds |-> "adc", tried |-> <<"adc">>, err |-> <<>>]
    ELSE IF e.keyfile
    THEN [ok |-> TRUE, creds |-> "keyfile", tried |-> <<"adc", "keyfile">>,
          err |-> <<>>]
    ELSE [ok |-> FALSE, creds |-> "", tried |-> <<"adc", "keyfile">>,
          err |-> <<"FileNotFoundError">>]

\* Raises on an empty SHEET_ID before any credential is looked up; then
\* authorize, open_by_key and the worksheet lookup.
_get_sheet(sid, e) ==
    IF sid = <<>>
    THEN [ok |-> FALSE, creds |-> "", trace |-> <<>>, err |-> <<"SHEET_ID vacio">>]
    ELSE LET c == _get_google_creds(e) IN
         IF ~c.ok
         THEN [ok |-> FALSE, creds |-> "", trace |-> c.tried, err |-> c.err]
         ELSE IF ~e.open
         THEN [ok |-> FALSE, creds |-> c.creds, trace |-> c.tried \o <<"open">>,
               err |-> <<"SpreadsheetNotFound">>]
         ELSE [ok |-> TRUE, creds |-> c.creds, trace |-> c.tried \o <<"open">>,
               err |-> <<>>]

\* ws.append_row(row, value_input_option="RAW") on the worksheet ws
append_row(ws, row, e) ==
    IF e.append
    THEN [ok |-> TRUE, rows |-> <<row>>, trace |-> ws.trace \o <<"append">>,
          err |-> <<>>]
    ELSE [ok |-> FALSE, rows |-> <<>>, trace |-> ws.trace \o <<"append">>,
          err |-> <<"APIError">>]

\* time.strftime: the clock is not modelled, every timestamp reads "ts"
strftime == <<"ts">>

\* The row as appended.  id is not a column: it records which request wrote
\* the row, so that rows can be attributed to requests.
Row(id, snd, bdy, rpl) ==
    [ts |-> strftime, sender |-> snd, body |-> bdy, reply |-> rpl, id |-> id]

\* log_message without its except clause: a failure leaves the call
log_message_uncaught(id, snd, bdy, rpl, sid, e) ==
    LET ws == _get_sheet(sid, e) IN
    IF ~ws.ok
    THEN [rows |-> <<>>, raised |-> TRUE, creds |-> ws.creds, trace |-> ws.trace]
    ELSE LET a == append_row(ws, Row(id, Or(snd, DASH), Or(bdy, <<>>), Or(rpl, <<>>)), e)
         IN [rows |-> a.rows, raised |-> ~a.ok, creds |-> ws.creds, trace |-> a.trace]

\* log_message: everything raised inside is caught and logged.
\* rows: what the call appends; raised: whether an exception leaves the call.
log_message(id, snd, bdy, rpl, sid, e) ==
    LET ws == _get_sheet(sid, e) IN
    IF ~ws.ok
    THEN [rows |-> <<>>, raised |-> FALSE, creds |-> ws.creds, trace |-> ws.trace]
    ELSE LET a == append_row(ws, Row(id, Or(snd, DASH), Or(bdy, <<>>), Or(rpl, <<>>)), e)
         IN [rows |-> a.rows, raised |-> FALSE, creds |-> ws.creds, trace |-> a.trace]

\* ------------------------------------------------------------- OpenAI
\* What client.chat.completions.create does on one call: it returns a
\* message whose content is a text or None, or it raises e.
Completions ==
    {[kind |-> "ok", content |-> c, e |-> ""] :
        c \in {None, <<>>, <<" ", "a", "<", "b", "\n">>}}
    \cup {[kind |-> "fail", content |-> None, e |-> x] :
        x \in {"TimeoutError", "AuthenticationError"}}

\* A call made while handling a request, as the handler made it.
NoOutcome == [kind |-> "", content |-> None, e |-> ""]

ComposerCall(fn, text, sent, out, o) ==
    [fn |-> fn, by |-> "router", text |-> text, sent |-> sent, out |-> out,
     outcome |-> o,
     sender |-> <<>>, body |-> <<>>, reply |-> <<>>, trace |-> <<>>,
     creds |-> "", appended |-> FALSE]

LogCall(by, snd, bdy, rpl, r) ==
    [fn |-> "log_message", by |-> by, text |-> <<>>, sent |-> <<>>, out |-> <<>>,
     outcome |-> NoOutcome,
     sender |-> snd, body |-> bdy, reply |-> rpl, trace |-> r.trace,
     creds |-> r.creds, appended |-> r.rows /= <<>>]

\* codigo_comentado.py: fixed apology on any exception
_ai_reply(text, o) ==
    LET sent == Or(text, EMPTY_USER) IN
    IF o.kind = "ok"
    THEN [out |-> strip(Or(o.content, <<>>)), sent |-> sent, raised |-> FALSE]
    ELSE [out |-> APOLOGY, sent |-> sent, raised |-> FALSE]

\* codigo_comentado.py: fixed fenced block on any exception
_ai_code(user_prompt, o) ==
    LET sent == Or(user_prompt, CODE_DEFAULT) IN
    IF o.kind = "ok"
    THEN [out |-> strip(Or(o.content, <<>>)), sent |-> sent, raised |-> FALSE]
    ELSE [out |-> CODE_FALLBACK, sent |-> sent, raised |-> FALSE]

\* main.py: the reply quotes the exception
_ai_reply_main(text, o) ==
    LET sent == Or(text, EMPTY_USER) IN
    IF o.kind = "ok"
    THEN [out |-> strip(Or(o.content, NO_REPLY_main)), sent |-> sent,
          raised |-> FALSE]
    ELSE [out |-> UPS_REPLY_main \o <<o.e>>, sent |-> sent, raised |-> FALSE]

\* main.py: content.strip() on a None content raises inside the try
_ai_code_main(text, o) ==
    IF o.kind = "ok"
    THEN IF o.content = None
         THEN [out |-> UPS_CODE_main \o <<"AttributeError">>, sent |-> text,
               raised |-> FALSE]
         ELSE [out |-> strip(o.content), sent |-> text, raised |-> FALSE]
    ELSE [out |-> UPS_CODE_main \o <<o.e>>, sent |-> text, raised |-> FALSE]

\* ------------------------------------------------------------- webhook
\* the /logtest branch writing to the row the reply it returns
logtest_branch_echo(id, snd, sid, e) ==
    LET r == log_message(id, snd, LOGTEST_MARKER, LOGTEST_REPLY, sid, e)
    IN [reply |-> LOGTEST_REPLY,
        calls |-> <<LogCall("router", snd, LOGTEST_MARKER, LOGTEST_REPLY, r)>>,
        rows |-> r.rows, raised |-> r.raised]

\* The /logtest branch: log a marker row with its own reply text, then set
\* the reply sent to the user.
logtest_branch(id, snd, sid, e) ==
    LET r == log_message(id, snd, LOGTEST_MARKER, LOGTEST_ROW_REPLY, sid, e)
    IN [reply |-> LOGTEST_REPLY,
        calls |-> <<LogCall("router", snd, LOGTEST_MARKER, LOGTEST_ROW_REPLY, r)>>,
        rows |-> r.rows, raised |-> r.raised]

\* The command router of codigo_comentado.py, on the trimmed body b.
router(id, snd, b, o, sid, e) ==
    LET tt == lower(b) IN
    IF tt \in {PING, SLASH_PING}
    THEN [reply |-> PONG, calls |-> <<>>, rows |-> <<>>, raised |-> FALSE]
    ELSE IF tt \in {HELP, <<"/">> \o HELP, AYUDA, <<"/">> \o AYUDA}
    THEN [reply |-> HELP_TEXT, calls |-> <<>>, rows |-> <<>>, raised |-> FALSE]
    ELSE IF tt = SLASH_LOGTEST
    THEN logtest_branch(id, snd, sid, e)
    ELSE IF startswith(tt, SLASH_CODE)
    THEN LET prompt == strip(slice_from(b, Len(SLASH_CODE)))
             arg == Or(prompt, CODE_DEFAULT)
             c == _ai_code(arg, o)
         IN [reply |-> c.out,
             calls |-> <<ComposerCall("_ai_code", arg, c.sent, c.out, o)>>,
             rows |-> <<>>, raised |-> c.raised]
    ELSE IF b = <<>>
    THEN [reply |-> EMPTY_PROMPT, calls |-> <<>>, rows |-> <<>>, raised |-> FALSE]
    ELSE LET c == _ai_reply(b, o)
         IN [reply |-> c.out,
             calls |-> <<ComposerCall("_ai_reply", b, c.sent, c.out, o)>>,
             rows |-> <<>>, raised |-> c.raised]

\* The command router of main.py: no /logtest branch.
router_main(id, snd, b, o, sid, e) ==
    LET tt == lower(b) IN
    IF tt \in {PING, SLASH_PING}
    THEN [reply |-> PONG, calls |-> <<>>, rows |-> <<>>, raised |-> FALSE]
    ELSE IF tt \in {HELP, <<"/">> \o HELP, AYUDA, <<"/">> \o AYUDA}
    THEN [reply |-> HELP_TEXT_main, calls |-> <<>>, rows |-> <<>>, raised |-> FALSE]
    ELSE IF startswith(tt, SLASH_CODE)
    THEN LET prompt == strip(slice_from(b, Len(SLASH_CODE)))
             arg == Or(prompt, CODE_DEFAULT_main)
             c == _ai_code_main(arg, o)
         IN [reply |-> c.out,
             calls |-> <<ComposerCall("_ai_code", arg, c.sent, c.out, o)>>,
             rows |-> <<>>, raised |-> c.raised]
    ELSE IF b = <<>>
    THEN [reply |-> EMPTY_PROMPT, calls |-> <<>>, rows |-> <<>>, raised |-> FALSE]
    ELSE LET c == _ai_reply_main(b, o)
         IN [reply |-> c.out,
             calls |-> <<ComposerCall("_ai_reply", b, c.sent, c.out, o)>>,
             rows |-> <<>>, raised |-> c.raised]

\* the handler's log step without the /logtest exemption
handler_log_always(id, tt, snd, b, rpl, sid, e) ==
    LET r == log_message(id, snd, b, rpl, sid, e)
    IN [calls |-> <<LogCall("handler", snd, b, rpl, r)>>, rows |-> r.rows,
        raised |-> r.raised]

\* the handler's log step writing the normalised text instead of the body
handler_log_lower(id, tt, snd, b, rpl, sid, e) ==
    IF tt /= SLASH_LOGTEST
    THEN LET r == log_message(id, snd, tt, rpl, sid, e)
         IN [calls |-> <<LogCall("handler", snd, tt, rpl, r)>>, rows |-> r.rows,
             raised |-> r.raised]
    ELSE [calls |-> <<>>, rows |-> <<>>, raised |-> FALSE]

\* The handler's own log step: codigo_comentado.py skips it for /logtest.
handler_log(id, tt, snd, b, rpl, sid, e) ==
    IF tt /= SLASH_LOGTEST
    THEN LET r == log_message(id, snd, b, rpl, sid, e)
         IN [calls |-> <<LogCall("handler", snd, b, rpl, r)>>, rows |-> r.rows,
             raised |-> r.raised]
    ELSE [calls |-> <<>>, rows |-> <<>>, raised |-> FALSE]

\* main.py logs every POST.
handler_log_main(id, tt, snd, b, rpl, sid, e) ==
    LET r == log_message(id, snd, b, rpl, sid, e)
    IN [calls |-> <<LogCall("handler", snd, b, rpl, r)>>, rows |-> r.rows,
        raised |-> r.raised]

\* xml.etree text escaping, as MessagingResponse serialises a message
EscapeChar(c) ==
    CASE c = "&" -> "&amp;" [] c = "<" -> "&lt;" [] c = ">" -> "&gt;"
      [] OTHER -> c

escape(s) == [i \in 1..Len(s) |-> EscapeChar(s[i])]

XML_DECL == <<"<?xml version=\"1.0\" encoding=\"UTF-8\"?>">>

\* str(tw) after tw.message(reply or ""): an empty text gives <Message />
TwiML(rpl) ==
    LET m == Or(rpl, <<>>) IN
    IF m = <<>>
    THEN XML_DECL \o <<"<Response>", "<Message />", "</Response>">>
    ELSE XML_DECL \o <<"<Response>", "<Message>">> \o escape(m)
         \o <<"</Message>", "</Response>">>

NoResp == [status |-> 0, body |-> <<>>, ctype |-> ""]

\* an exception that leaves webhook: the functions framework answers 500
ServerError ==
    [status |-> 500, body |-> <<"Internal Server Error">>, ctype |-> "text/html"]

\* make_response(str(tw), 200) with the XML content type
make_twiml_response(rpl) ==
    [status |-> 200, body |-> TwiML(rpl), ctype |-> "application/xml"]

\* the debug branch answering 200 whatever the store did
non_post_swallow(id, debug, debug_body, sid, e) ==
    IF debug = <<"1">>
    THEN LET ws == _get_sheet(sid, e)
             a == append_row(ws, Row(id, DEBUG_SENDER, debug_body, DEBUG_REPLY), e)
         IN IF ws.ok
            THEN [resp |-> [status |-> 200, body |-> DEBUG_WROTE, ctype |-> "text/html"],
                  rows |-> a.rows, creds |-> ws.creds, trace |-> a.trace]
            ELSE [resp |-> [status |-> 200, body |-> DEBUG_WROTE, ctype |-> "text/html"],
                  rows |-> <<>>, creds |-> ws.creds, trace |-> ws.trace]
    ELSE [resp |-> [status |-> 200, body |-> OK_BODY, ctype |-> "text/html"],
          rows |-> <<>>, creds |-> "", trace |-> <<>>]

\* The non-POST branch: GET ?debug=1 writes a test row, anything else is "ok".
non_post(id, debug, debug_body, sid, e) ==
    IF debug = <<"1">>
    THEN LET ws == _get_sheet(sid, e) IN
         IF ~ws.ok
         THEN [resp |-> [status |-> 500, body |-> DEBUG_ERROR \o ws.err,
                         ctype |-> "text/html"],
               rows |-> <<>>, creds |-> ws.creds, trace |-> ws.trace]
         ELSE LET a == append_row(ws, Row(id, DEBUG_SENDER, debug_body, DEBUG_REPLY), e)
              IN IF a.ok
                 THEN [resp |-> [status |-> 200, body |-> DEBUG_WROTE,
                                 ctype |-> "text/html"],
                       rows |-> a.rows, creds |-> ws.creds, trace |-> a.trace]
                 ELSE [resp |-> [status |-> 500, body |-> DEBUG_ERROR \o a.err,
                                 ctype |-> "text/html"],
                       rows |-> a.rows, creds |-> ws.creds, trace |-> a.trace]
    ELSE [resp |-> [status |-> 200, body |-> OK_BODY, ctype |-> "text/html"],
          rows |-> <<>>, creds |-> "", trace |-> <<>>]

\* ------------------------------------------------------------- requests
Pads == {[i \in 1..k |-> " "] : k \in 0..MaxPad}

Cores ==
    { <<>>,
      PING,
      <<"/", "P", "i", "n", "g">>,
      HELP,
      <<"/">> \o HELP,
      <<"A", "y", "u", "d", "a">>,
      <<"/">> \o AYUDA,
      SLASH_LOGTEST,
      <<"/", "L", "o", "g", "T", "e", "s", "t">>,
      SLASH_LOGTEST \o <<"x">>,
      SLASH_CODE,
      <<"/", "C", "O", "D", "E", " ", " ", "P", "y">>,
      SLASH_CODE \o <<"r">>,
      <<"/", "c", "o", "d">>,
      <<"H", "o", "l", "a", " ", "t", "u">>,
      <<"a", "<", "b">> }

Bodies == {l \o c \o r : l \in Pads, c \in Cores, r \in Pads} \cup {None}

Froms == {None, <<>>, <<"+1555">>}

PostRequests ==
    {[method |-> "POST", debug |-> None, From |-> f, Body |-> b] :
        f \in Froms, b \in Bodies}

NonPostRequests ==
    {[method |-> "GET", debug |-> d, From |-> None, Body |-> None] :
        d \in {None, <<"1">>, <<"0">>}}

Requests == PostRequests \cup NonPostRequests

\* The requests of the concurrent workload: four POSTs and a debug probe
\* that writes its own row among theirs.
SmallRequests ==
    {[method |-> "POST", debug |-> None, From |-> <<"+1555">>, Body |-> SLASH_PING],
     [method |-> "POST", debug |-> None, From |-> None, Body |-> <<>>],
     [method |-> "POST", debug |-> None, From |-> <<"+1555">>, Body |-> SLASH_LOGTEST],
     [method |-> "POST", debug |-> None, From |-> <<>>,
      Body |-> <<" ", "H", "i", " ">>],
     [method |-> "GET", debug |-> <<"1">>, From |-> None, Body |-> None]}

Envs == [adc : BOOLEAN, keyfile : BOOLEAN, open : BOOLEAN, append : BOOLEAN]

EnvUp == [adc |-> TRUE, keyfile |-> TRUE, open |-> TRUE, append |-> TRUE]

NoRequest == [method |-> "", debug |-> None, From |-> None, Body |-> None]

\* ----------------------------------------------------------------- state
InitLocals ==
    /\ sheet = <<>>
    /\ pc = [p \in Procs |-> "idle"]
    /\ rid = [p \in Procs |-> 0]
    /\ request = [p \in Procs |-> NoRequest]
    /\ body_orig = [p \in Procs |-> <<>>]
    /\ sender = [p \in Procs |-> <<>>]
    /\ t = [p \in Procs |-> <<>>]
    /\ reply = [p \in Procs |-> <<>>]
    /\ calls = [p \in Procs |-> <<>>]
    /\ resp = [p \in Procs |-> NoResp]
    /\ outbox = <<>>

\* One request, any request, any deployment.
Init ==
    /\ impl \in {"comentado", "main"}
    /\ SHEET_ID \in {<<>>, <<"1R">>}
    /\ env \in Envs
    /\ inbox \in [1..1 -> Requests]
    /\ pending = DOMAIN inbox
    /\ InitLocals

\* The same, with codigo_comentado.py deployed.
InitComentado == Init /\ impl = "comentado"

\* Several requests in flight against a reachable store: the ambient
\* identity resolves, the spreadsheet opens and the append goes through.
InitConc ==
    /\ impl = "comentado"
    /\ SHEET_ID = <<"1R">>
    /\ env = EnvUp
    /\ inbox \in UNION {[1..n -> SmallRequests] : n \in 1..MaxInFlight}
    /\ pending = DOMAIN inbox
    /\ InitLocals

\* The platform hands a request to an idle instance; instances are alike, so
\* the lowest idle one takes it.
Receive(p) ==
    /\ pc[p] = "idle"
    /\ \A q \in Procs : q < p => pc[q] /= "idle"
    /\ \E id \in pending :
        /\ pending' = pending \ {id}
        /\ rid' = [rid EXCEPT ![p] = id]
        /\ request' = [request EXCEPT ![p] = inbox[id]]
        /\ pc' = [pc EXCEPT ![p] =
                    IF inbox[id].method /= "POST" THEN "nonpost" ELSE "route"]
    /\ UNCHANGED <<impl, SHEET_ID, env, inbox, sheet, body_orig, sender, t,
                   reply, calls, resp, outbox>>

\* if request.method != "POST": healthcheck or debug write, then return
NonPost(p) ==
    /\ pc[p] = "nonpost"
    /\ LET r == non_post(rid[p], request[p].debug,
                         IF impl = "comentado" THEN DEBUG_BODY ELSE DEBUG_BODY_main,
                         SHEET_ID, env)
       IN /\ sheet' = sheet \o r.rows
          /\ resp' = [resp EXCEPT ![p] = r.resp]
          /\ calls' = [calls EXCEPT ![p] =
                IF request[p].debug = <<"1">>
                THEN <<[fn |-> "debug", by |-> "handler", text |-> <<>>,
                        sent |-> <<>>, out |-> <<>>, outcome |-> NoOutcome,
                        sender |-> <<>>, body |-> <<>>, reply |-> <<>>, trace |-> r.trace,
                        creds |-> r.creds, appended |-> r.rows /= <<>>]>>
                ELSE <<>>]
    /\ pc' = [pc EXCEPT ![p] = "done"]
    /\ UNCHANGED <<impl, SHEET_ID, env, inbox, pending, rid, request, body_orig,
                   sender, t, reply, outbox>>

\* Read the form, normalise, and route the command (the provider answers o).
Route(p) ==
    /\ pc[p] = "route"
    /\ \E o \in Completions :
        LET b == strip(Or(request[p].Body, <<>>))
            snd == get_default(request[p].From, DESCONOCIDO)
            r == IF impl = "comentado"
                 THEN router(rid[p], snd, b, o, SHEET_ID, env)
                 ELSE router_main(rid[p], snd, b, o, SHEET_ID, env)
        IN /\ body_orig' = [body_orig EXCEPT ![p] = b]
           /\ sender' = [sender EXCEPT ![p] = snd]
           /\ t' = [t EXCEPT ![p] = lower(b)]
           /\ reply' = [reply EXCEPT ![p] = r.reply]
           /\ calls' = [calls EXCEPT ![p] = r.calls]
           /\ sheet' = sheet \o r.rows
           /\ IF r.raised
              THEN /\ resp' = [resp EXCEPT ![p] = ServerError]
                   /\ pc' = [pc EXCEPT ![p] = "done"]
              ELSE /\ resp' = resp
                   /\ pc' = [pc EXCEPT ![p] = "log"]
    /\ UNCHANGED <<impl, SHEET_ID, env, inbox, pending, rid, request, outbox>>

\* Log the exchange to the sheet.
Log(p) ==
    /\ pc[p] = "log"
    /\ LET r == IF impl = "comentado"
                THEN handler_log(rid[p], t[p], sender[p], body_orig[p], reply[p],
                                 SHEET_ID, env)
                ELSE handler_log_main(rid[p], t[p], sender[p], body_orig[p],
                                      reply[p], SHEET_ID, env)
       IN /\ calls' = [calls EXCEPT ![p] = calls[p] \o r.calls]
          /\ sheet' = sheet \o r.rows
          /\ IF r.raised
             THEN /\ resp' = [resp EXCEPT ![p] = ServerError]
                  /\ pc' = [pc EXCEPT ![p] = "done"]
             ELSE /\ resp' = resp
                  /\ pc' = [pc EXCEPT ![p] = "respond"]
    /\ UNCHANGED <<impl, SHEET_ID, env, inbox, pending, rid, request, body_orig,
                   sender, t, reply, outbox>>

\* Build the TwiML and return it.
Respond(p) ==
    /\ pc[p] = "respond"
    /\ resp' = [resp EXCEPT ![p] = make_twiml_response(reply[p])]
    /\ pc' = [pc EXCEPT ![p] = "done"]
    /\ UNCHANGED <<impl, SHEET_ID, env, inbox, pending, sheet, rid, request,
                   body_orig, sender, t, reply, calls, outbox>>

\* webhook returns: the response reaches the caller and the instance is free.
Finish(p) ==
    /\ pc[p] = "done"
    /\ pc' = [pc EXCEPT ![p] = "idle"]
    /\ rid' = [rid EXCEPT ![p] = 0]
    /\ request' = [request EXCEPT ![p] = NoRequest]
    /\ body_orig' = [body_orig EXCEPT ![p] = <<>>]
    /\ sender' = [sender EXCEPT ![p] = <<>>]
    /\ t' = [t EXCEPT ![p] = <<>>]
    /\ reply' = [reply EXCEPT ![p] = <<>>]
    /\ calls' = [calls EXCEPT ![p] = <<>>]
    /\ resp' = [resp EXCEPT ![p] = NoResp]
    /\ outbox' = [i \in DOMAIN outbox \cup {rid[p]} |->
                    IF i = rid[p] THEN resp[p] ELSE outbox[i]]
    /\ UNCHANGED <<impl, SHEET_ID, env, inbox, pending, sheet>>

Next ==
    \E p \in Procs :
        \/ Receive(p)
        \/ NonPost(p)
        \/ Route(p)
        \/ Log(p)
        \/ Respond(p)
        \/ Finish(p)

Spec == Init /\ [][Next]_vars

SpecComentado == InitComentado /\ [][Next]_vars

SpecConc == InitConc /\ [][Next]_vars

\* =============================================================== claims
IsPost(p) == request[p].method = "POST"

\* the body as received; an absent Body reads as the empty text
Raw(p) == Or(request[p].Body, <<>>)

Norm(p) == lower(strip(Raw(p)))

Routed(p) == IsPost(p) /\ pc[p] \in {"log", "respond", "done"}

Answered(p) == pc[p] = "done"

CallsOf(p, fns) == SelectSeq(calls[p], LAMBDA c : c.fn \in fns)

RowsOf(id) == SelectSeq(sheet, LAMBDA r : r.id = id)

\* the reply the deployed router gives with a store where every step works
ReplyWithStoreUp(p, o) ==
    LET snd == get_default(request[p].From, DESCONOCIDO) IN
    IF impl = "comentado"
    THEN router(rid[p], snd, strip(Raw(p)), o, <<"1R">>, EnvUp).reply
    ELSE router_main(rid[p], snd, strip(Raw(p)), o, <<"1R">>, EnvUp).reply

\* C1: every answered POST has status 200 and the XML envelope of the reply
\* the router produced, whatever the logging step did; the reply is one the
\* router also gives when logging works.
C1_LoggingNeverBlocksReply ==
    \A p \in Procs :
        (Answered(p) /\ IsPost(p)) =>
            /\ resp[p].status = 200
            /\ resp[p].ctype = "application/xml"
            /\ resp[p].body = TwiML(reply[p])
            /\ \E o \in Completions : reply[p] = ReplyWithStoreUp(p, o)

\* C1 witness: a POST answered 200 although its log call appended nothing
C1_Witness ==
    \E p \in Procs :
        /\ Answered(p) /\ IsPost(p)
        /\ resp[p].status = 200
        /\ \E i \in DOMAIN calls[p] :
            calls[p][i].fn = "log_message" /\ ~calls[p][i].appended
        /\ sheet = <<>>

DebugRow(id) ==
    [ts |-> strftime, sender |-> DEBUG_SENDER, body |-> DEBUG_BODY,
     reply |-> DEBUG_REPLY, id |-> id]

\* C7: a non-POST with debug=1 makes one append attempt and answers 200
\* "debug wrote row" exactly when the synthetic row was appended, 500 with the
\* error text and no row otherwise; without debug=1 it appends nothing and
\* answers 200 "ok".  No POST is answered 500.
C7_DebugProbe ==
    \A p \in Procs :
        Answered(p) =>
            IF IsPost(p)
            THEN resp[p].status /= 500
            ELSE IF request[p].debug = <<"1">>
            THEN /\ Len(calls[p]) = 1
                 /\ resp[p].status \in {200, 500}
                 /\ (resp[p].status = 200) <=> (RowsOf(rid[p]) = <<DebugRow(rid[p])>>)
                 /\ (resp[p].status = 200) => (resp[p].body = DEBUG_WROTE)
                 /\ (resp[p].status = 500) =>
                        /\ RowsOf(rid[p]) = <<>>
                        /\ startswith(resp[p].body, DEBUG_ERROR)
                        /\ Len(resp[p].body) > Len(DEBUG_ERROR)
            ELSE /\ sheet = <<>>
                 /\ calls[p] = <<>>
                 /\ resp[p].status = 200
                 /\ resp[p].body = OK_BODY

\* C7 witness: a debug probe against a store that fails, answered 500
C7_Witness ==
    \E p \in Procs :
        /\ Answered(p) /\ ~IsPost(p)
        /\ request[p].debug = <<"1">>
        /\ SHEET_ID /= <<>>
        /\ resp[p].status = 500
        /\ sheet = <<>>

\* C8: in every logging attempt the ambient identity is tried first and the
\* keyfile only after the ambient attempt failed; a row is appended only
\* after one of the two succeeded in that attempt; when both fail, or the
\* spreadsheet identifier is empty, the attempt appends nothing.
C8_CredentialOrder ==
    \A p \in Procs :
        \A i \in DOMAIN calls[p] :
            LET c == calls[p][i] IN
            c.fn \in {"log_message", "debug"} =>
                /\ (c.trace /= <<>>) => (c.trace[1] = "adc")
                /\ \A k \in DOMAIN c.trace :
                       (c.trace[k] = "keyfile") =>
                           (k = 2 /\ c.trace[1] = "adc" /\ ~env.adc)
                /\ c.appended =>
                       /\ SHEET_ID /= <<>>
                       /\ \/ c.creds = "adc" /\ env.adc
                          \/ c.creds = "keyfile" /\ env.keyfile /\ ~env.adc
                       /\ RowsOf(rid[p]) /= <<>>
                /\ (SHEET_ID = <<>> \/ (~env.adc /\ ~env.keyfile)) =>
                       /\ ~c.appended
                       /\ sheet = <<>>
                       /\ "append" \notin {c.trace[k] : k \in DOMAIN c.trace}

\* C8 witness: a row appended with the keyfile after the ambient identity failed
C8_Witness ==
    \E p \in Procs :
        \E i \in DOMAIN calls[p] :
            /\ calls[p][i].fn = "log_message"
            /\ calls[p][i].appended
            /\ calls[p][i].creds = "keyfile"
            /\ calls[p][i].trace = <<"adc", "keyfile", "open", "append">>
            /\ Len(sheet) = 1

HelpWords == {HELP, <<"/">> \o HELP, AYUDA, <<"/">> \o AYUDA}

ComposerCalls(p) == CallsOf(p, {"_ai_reply", "_ai_code"})

LogCalls(p) == CallsOf(p, {"log_message"})

\* C2: when the provider call fails, _ai_reply returns its fixed apology and
\* _ai_code its fixed fenced block, whatever the failure was; no exception
\* reaches webhook and the POST is answered 200.
C2_ComposerFallback ==
    \A p \in Procs :
        Routed(p) =>
            /\ \A i \in DOMAIN calls[p] :
                LET c == calls[p][i] IN
                (c.fn \in {"_ai_reply", "_ai_code"} /\ c.outcome.kind = "fail") =>
                    /\ c.fn = "_ai_reply" => c.out = APOLOGY
                    /\ c.fn = "_ai_code" => c.out = CODE_FALLBACK
                    /\ reply[p] = c.out
            /\ Answered(p) => resp[p].status = 200

\* C2 reached: a composer call whose provider call failed, answered
C2_Witness ==
    \E p \in Procs :
        /\ Answered(p) /\ IsPost(p)
        /\ \E i \in DOMAIN calls[p] : calls[p][i].outcome.kind = "fail"

\* C3: a POST whose normalized body is "/logtest" makes exactly one append
\* attempt: the router's log call with the synthetic body marker; the
\* handler makes no second log call, and at most that one row is written.
C3_LogtestSingleWrite ==
    \A p \in Procs :
        (Answered(p) /\ IsPost(p) /\ Norm(p) = SLASH_LOGTEST) =>
            /\ Len(LogCalls(p)) = 1
            /\ LogCalls(p)[1].by = "router"
            /\ LogCalls(p)[1].body = LOGTEST_MARKER
            /\ Len(RowsOf(rid[p])) = (IF LogCalls(p)[1].appended THEN 1 ELSE 0)
            /\ \A k \in DOMAIN RowsOf(rid[p]) : RowsOf(rid[p])[k].body = LOGTEST_MARKER

\* C3 reached: a /logtest POST answered with its row in the sheet
C3_Witness ==
    \E p \in Procs :
        /\ Answered(p) /\ IsPost(p) /\ Norm(p) = SLASH_LOGTEST
        /\ Len(sheet) = 1

\* C5: the action is picked from the trimmed, lowercased body by first match:
\* ping, help, /logtest, the /code prefix, the empty body, anything else; the
\* composers are never called for ping, help, /logtest or an empty body.
C5_RouterTable ==
    \A p \in Procs :
        Routed(p) =>
            LET n == Norm(p)
                rc == SelectSeq(calls[p], LAMBDA c : c.by = "router")
            IN IF n \in {PING, SLASH_PING}
               THEN reply[p] = PONG /\ rc = <<>>
               ELSE IF n \in HelpWords
               THEN reply[p] \in {HELP_TEXT, HELP_TEXT_main} /\ rc = <<>>
               ELSE IF n = SLASH_LOGTEST
               THEN /\ Len(rc) = 1
                    /\ rc[1].fn = "log_message"
                    /\ ComposerCalls(p) = <<>>
               ELSE IF startswith(n, SLASH_CODE)
               THEN Len(rc) = 1 /\ rc[1].fn = "_ai_code" /\ reply[p] = rc[1].out
               ELSE IF n = <<>>
               THEN reply[p] = EMPTY_PROMPT /\ rc = <<>>
               ELSE Len(rc) = 1 /\ rc[1].fn = "_ai_reply" /\ reply[p] = rc[1].out

\* C5 reached: an exact command in mixed case with padding, routed
C5_Witness ==
    \E p \in Procs :
        /\ Routed(p)
        /\ Norm(p) = SLASH_LOGTEST
        /\ Raw(p) /= SLASH_LOGTEST

\* C6: for a body whose lowercased form starts with "/code", the code
\* composer is handed the body in its original case without its first 5
\* characters, trimmed; when nothing is left, "python: imprimir Hola Mundo".
C6_CodePrompt ==
    \A p \in Procs :
        (Routed(p) /\ startswith(lower(Raw(p)), SLASH_CODE)) =>
            LET rest == strip(slice_from(Raw(p), 5))
                cc == CallsOf(p, {"_ai_code"})
            IN /\ Len(cc) = 1
               /\ cc[1].text = (IF rest = <<>> THEN CODE_DEFAULT ELSE rest)
               /\ cc[1].sent = cc[1].text

\* C6 reached: "/CODE  Py" with trailing padding reached the code composer
C6_Witness ==
    \E p \in Procs :
        /\ Routed(p)
        /\ startswith(lower(Raw(p)), SLASH_CODE)
        /\ Raw(p) /= lower(Raw(p))
        /\ Raw(p) /= strip(Raw(p))
        /\ CallsOf(p, {"_ai_code"}) /= <<>>

\* C9 as claimed: the body written to the audit row and the text passed to the
\* conversational composer are the body as received, with its original
\* casing and its original leading and trailing whitespace.
C9_BodyAsReceived ==
    \A p \in Procs :
        Routed(p) =>
            /\ \A i \in DOMAIN calls[p] :
                LET c == calls[p][i] IN
                /\ (c.fn = "log_message" /\ c.by = "handler") => c.body = Raw(p)
                /\ c.fn = "_ai_reply" => c.text = Raw(p)
            /\ (Norm(p) /= SLASH_LOGTEST) =>
                   \A k \in DOMAIN RowsOf(rid[p]) : RowsOf(rid[p])[k].body = Raw(p)

\* C9 amended: the body written to the audit row by the handler and the text
\* passed to the conversational composer are the received body in its
\* original casing with the leading and trailing whitespace removed; the
\* /logtest branch of codigo_comentado.py writes its marker instead.
C9_BodyTrimmedCasePreserved ==
    \A p \in Procs :
        Routed(p) =>
            /\ \A i \in DOMAIN calls[p] :
                LET c == calls[p][i] IN
                /\ (c.fn = "log_message" /\ c.by = "handler") =>
                       c.body = strip(Raw(p))
                /\ (c.fn = "log_message" /\ c.by = "router") =>
                       c.body = LOGTEST_MARKER
                /\ c.fn = "_ai_reply" =>
                       c.text = strip(Raw(p)) /\ c.sent = strip(Raw(p))
            /\ \A k \in DOMAIN RowsOf(rid[p]) :
                   RowsOf(rid[p])[k].body =
                       (IF impl = "comentado" /\ Norm(p) = SLASH_LOGTEST
                        THEN LOGTEST_MARKER ELSE strip(Raw(p)))

\* C9 witness: a padded, mixed-case body went to the conversational composer
\* and its row is in the sheet
C9_Witness ==
    \E p \in Procs :
        /\ Answered(p) /\ IsPost(p)
        /\ Raw(p) /= strip(Raw(p))
        /\ strip(Raw(p)) /= Norm(p)
        /\ CallsOf(p, {"_ai_reply"}) /= <<>>
        /\ Len(RowsOf(rid[p])) = 1

\* C10 as claimed: for a /logtest request the reply in the envelope is the
\* reply text the router wrote to the audit row.
C10_LogtestReplyIsRowReply ==
    \A p \in Procs :
        (Answered(p) /\ IsPost(p) /\ Norm(p) = SLASH_LOGTEST) =>
            /\ \A i \in DOMAIN calls[p] :
                   calls[p][i].fn = "log_message" =>
                       resp[p].body = TwiML(calls[p][i].reply)
            /\ \A k \in DOMAIN RowsOf(rid[p]) :
                   resp[p].body = TwiML(RowsOf(rid[p])[k].reply)

\* C10 amended: for a /logtest request the envelope carries the fixed text
\* "Log test ... (se intento escribir en Sheets)." and the router's row
\* carries the other fixed text "OK log test".
C10_LogtestTwoFixedTexts ==
    \A p \in Procs :
        (Answered(p) /\ IsPost(p) /\ Norm(p) = SLASH_LOGTEST) =>
            /\ resp[p].status = 200
            /\ resp[p].body = TwiML(LOGTEST_REPLY)
            /\ Len(LogCalls(p)) = 1
            /\ LogCalls(p)[1].reply = LOGTEST_ROW_REPLY
            /\ \A k \in DOMAIN RowsOf(rid[p]) :
                   RowsOf(rid[p])[k].reply = LOGTEST_ROW_REPLY
            /\ LOGTEST_ROW_REPLY /= LOGTEST_REPLY

\* C10 witness: a /logtest request answered with its row written
C10_Witness ==
    \E p \in Procs :
        /\ Answered(p) /\ IsPost(p) /\ Norm(p) = SLASH_LOGTEST
        /\ Len(RowsOf(rid[p])) = 1
        /\ resp[p].status = 200

\* the received body of request id, normalised
NormOf(id) == lower(strip(Or(inbox[id].Body, <<>>)))

Completed == {id \in DOMAIN outbox : inbox[id].method = "POST"}

\* C4 as claimed: with a reachable store, the log holds exactly one row per
\* completed POST, carrying the From field (or "desconocido" when absent),
\* the request's body, and the reply wrapped in that request's envelope;
\* only the body of a /logtest row differs (the marker).
C4_OneRowPerPost ==
    \A id \in Completed :
        /\ Len(RowsOf(id)) = 1
        /\ LET r == RowsOf(id)[1] IN
           /\ r.sender = get_default(inbox[id].From, DESCONOCIDO)
           /\ r.body = (IF NormOf(id) = SLASH_LOGTEST THEN LOGTEST_MARKER
                        ELSE Or(inbox[id].Body, <<>>))
           /\ outbox[id].body = TwiML(r.reply)

\* C4 amended: with a reachable store, the log holds exactly one row per
\* completed POST and none for a request not received; the row carries the
\* From field ("desconocido" when absent, "-" when empty), the body trimmed
\* of leading and trailing whitespace, and the reply wrapped in that
\* request's envelope; a /logtest row carries the marker and "OK log test"
\* while its envelope carries the /logtest reply.
C4_OneRowPerPostTrimmed ==
    /\ \A id \in Completed :
        /\ Len(RowsOf(id)) = 1
        /\ outbox[id].status = 200
        /\ LET r == RowsOf(id)[1] IN
           /\ r.sender = Or(get_default(inbox[id].From, DESCONOCIDO), DASH)
           /\ IF NormOf(id) = SLASH_LOGTEST
              THEN /\ r.body = LOGTEST_MARKER
                   /\ r.reply = LOGTEST_ROW_REPLY
                   /\ outbox[id].body = TwiML(LOGTEST_REPLY)
              ELSE /\ r.body = strip(Or(inbox[id].Body, <<>>))
                   /\ outbox[id].body = TwiML(r.reply)
    /\ \A k \in DOMAIN sheet : sheet[k].id \in (DOMAIN inbox) \ pending
    /\ \A id \in DOMAIN inbox : Len(RowsOf(id)) <= 1
    /\ (pending = {} /\ \A p \in Procs : pc[p] = "idle") =>
           /\ Completed = {id \in DOMAIN inbox : inbox[id].method = "POST"}
           /\ Len(SelectSeq(sheet, LAMBDA r : r.id \in Completed))
                  = Cardinality(Completed)

\* C4 witness: two POSTs handled concurrently, both completed, the row of the
\* second request written before the row of the first
C4_Witness ==
    /\ Len(inbox) >= 2
    /\ Completed = DOMAIN inbox
    /\ Len(sheet) = Len(inbox)
    /\ sheet[1].id = 2
    /\ sheet[2].id = 1
    /\ inbox[1] /= inbox[2]
    /\ NormOf(1) = SLASH_LOGTEST

====
